---- MODULE Spec2Model ----
(***************************************************************************)
(* The device registry and discovery engine of espisy (espisy/core.py):    *)
(* the class-level indices ESP._device_register and ESP._name_ip_map, the  *)
(* classmethods add, get, remove and scan_network, and the probe threads   *)
(* scan_network starts (__connect_validate_ipv4_address).                  *)
(*                                                                         *)
(* The code takes no lock.  A thread is suspended at every HTTP request:   *)
(* a label of pc names the request the thread is waiting in (or the        *)
(* statement it is about to run), and one step is the arrival of the       *)
(* response together with the statements up to and including the next      *)
(* access to an index.  A device reports the unit name it is configured    *)
(* with, which an operator may change at any time; whether it answers at   *)
(* all is decided when a response is due and may differ from request to    *)
(* request.                                                                *)
(***************************************************************************)
EXTENDS Integers, Sequences, FiniteSets, TLC

VARIABLES
    reg,          \* ESP._device_register: address -> record (NoRec: no such key)
    nameMap,      \* ESP._name_ip_map: unit name -> address (NoAddr: no such key)
    settingsFile, \* the content of esp.yaml at settings_file_name
    file_dir,     \* USER_SETTINGS file_dir of esp.ini: "default" or a directory
    defaultFile,  \* the content of default/esp.yaml, when file_dir is "default"
    unit,         \* the unit name each device is configured with
    pc,           \* where each thread is
    ip,           \* the ip argument of the add/remove the thread is in, or where
                  \* the scan the thread is in has its network from
    dm,           \* the dummy argument of the add the thread is in
    esp,          \* the local `esp_deleted` of the remove the thread is in
    res,          \* the outcome of the thread's last finished call
    settings,     \* the local `settings` of the running scan_network
    spawned,      \* the hosts scan_network has started a thread for
    calls,        \* number of calls and renamings made so far
    sent,         \* the last command a record built for its device
    device        \* what the last Device(name, parent) returned

vars == <<reg, nameMap, settingsFile, file_dir, defaultFile, unit, pc, ip, dm,
          esp, res, settings, spawned, calls, sent, device>>

-----------------------------------------------------------------------------
(* Bounds *)

\* The calls of add, get, remove and scan_network and the renamings of devices
\* are counted up to MaxCalls; a scan_network call, with its threads, counts as
\* ScanCalls calls.
MaxCalls == 3
ScanCalls == 2

-----------------------------------------------------------------------------
(* Values *)

\* The hosts of the scanned network, in the order scan_network iterates them.
Network == <<"a1", "a2">>
Addrs == {Network[i] : i \in 1..Len(Network)}
\* main calls scan_network and waits in it; user calls add, get and remove,
\* before, while and after main scans; scan_network starts one thread per host.
Scanner == "main"
Callers == {"user"}
Probes == Addrs
Threads == {Scanner} \cup Callers \cup Probes

test_ip == "127.0.0.1"
test_name == "test_name"
test_gpio == 2

NoAddr == "none"
\* scan_network(network) and scan_network(): the range is the argument, or the
\* ipv4network entry of esp.yaml
GivenNetwork == "network argument"
SavedNetwork == "ipv4network setting"
NoName == "<no name>"
NoGPIO == -1
Absent == NoGPIO - 1

\* Unit names a device can report: the empty name, an ordinary name, and a
\* name that reads like the address of a host.
UnitNames == {"", "n1", "a1"}
\* The task names that can be keys of a record's _switches.
SwitchNames == {"door", "lamp"}

NoSwitches == [s \in SwitchNames |-> Absent]

SwitchTask == [TaskName |-> "door", Type |-> "Switch input - Switch"]
LampTask == [TaskName |-> "lamp", Type |-> "Switch"]
DHTTask == [TaskName |-> "DHT", Type |-> "Environment - DHT11/12/22  SONOFF2301/7021"]

\* The answers of a device to GET /json.
\*   down:    the connection is refused
\*   silent:  nothing comes back
\*   garbage: a body that is no JSON
\*   nosys:   JSON without System / Unit Name
\*   up:      an ESPEasy state document
NoDoc == [kind |-> "none", name |-> "", sensors |-> <<>>]
Failing == {[kind |-> k, name |-> "", sensors |-> <<>>] : k \in {"down", "silent", "garbage", "nosys"}}
Doc(n, s) == [kind |-> "up", name |-> n, sensors |-> s]
\* The state document of a device with unit name n: the device named n1 has
\* two switches and a DHT sensor, the others a DHT sensor only.
StateDoc(n) == Doc(n, IF n = "n1" THEN <<SwitchTask, LampTask, DHTTask>> ELSE <<DHTTask>>)
\* What the device at address a can answer now.
HostStates(a) == Failing \cup {StateDoc(unit[a])}

test_state == [kind |-> "up", name |-> "Room_1",
               sensors |-> <<[TaskName |-> "door", Type |-> "switch"],
                             [TaskName |-> "DHT", Type |-> "environment"]>>]

NoRec == [ip |-> NoAddr, name |-> NoName, state |-> NoDoc, switches |-> NoSwitches, dummy |-> FALSE]

\* esp.yaml.  kind: missing (cannot be opened), empty (yaml loads None), doc.
\* net: "nokey" (no ipv4network key), "null", "set".  esps: the device list, each
\* entry {address: {"switches": {name: {"GPIO": pin}}}}.
Entry(a, sw) == [ip |-> a, switches |-> sw]
\* {"door": {"GPIO": test_gpio}}
SavedDoor == [s \in SwitchNames |-> IF s = "door" THEN test_gpio ELSE Absent]
SettingsDoc(net, hasEsps, esps) == [kind |-> "doc", net |-> net, hasEsps |-> hasEsps, esps |-> esps]
MissingFile == [kind |-> "missing", net |-> "nokey", hasEsps |-> FALSE, esps |-> <<>>]
\* settings_dir = config.get("USER_SETTINGS", "file_dir"); "default" stands
\* for the home directory there, any other value is a directory
FileDirs == {"default", "dir"}
SettingsFiles ==
    { MissingFile,
      [kind |-> "empty", net |-> "nokey", hasEsps |-> FALSE, esps |-> <<>>],
      SettingsDoc("set", FALSE, <<>>),
      SettingsDoc("null", TRUE, <<Entry("a1", SavedDoor)>>),
      SettingsDoc("set", TRUE, <<Entry("a2", NoSwitches), Entry("a1", SavedDoor)>>) }
Unbound == [kind |-> "unbound", net |-> "nokey", hasEsps |-> FALSE, esps |-> <<>>]

NoRes == [op |-> "none", arg |-> "", exc |-> "none"]

\* A command URL http://<to>/control?cmd=<cmd>,<pin>; wire: it was requested
\* from the device, not only returned to the caller.
Cmd(c, g, a, w) == [cmd |-> c, pin |-> g, to |-> a, wire |-> w]
NoCmd == Cmd("none", NoGPIO, NoAddr, FALSE)
NoDevice == "None"
\* f"{gpio}"
PinStr(g) == IF g = NoGPIO THEN "None" ELSE IF g = test_gpio THEN "2" ELSE "3"

-----------------------------------------------------------------------------
(* requests.get(url[, timeout]).json() *)

Ok(doc) == [exc |-> "none", doc |-> doc]
Err(e) == [exc |-> e, doc |-> NoDoc]

\* The outcomes of one request to a device that answers h.  With a timeout a
\* device that never answers ends the request in ConnectTimeout or ReadTimeout;
\* without one the request never returns ("hang").
FetchOutcomes(h, timed) ==
    CASE h.kind = "down" -> {Err("ConnectionError")}
      [] h.kind = "silent" -> IF timed THEN {Err("ConnectTimeout"), Err("ReadTimeout")} ELSE {Err("hang")}
      [] h.kind = "garbage" -> {Err("JSONDecodeError")}
      [] OTHER -> {Ok(h)}

\* The requests of add and refresh carry no timeout, the probe's carries one.
AddTimed == FALSE
RefreshTimed == FALSE
ProbeTimed == TRUE

\* response["System"]["Unit Name"]
UnitNameError(o) ==
    IF o.exc # "none" THEN o.exc
    ELSE IF o.doc.kind = "nosys" THEN "KeyError" ELSE "none"

\* The exceptions the probe's except clause names and swallows; any other ends
\* the probe thread with a traceback.  Either way the thread is over.
Caught == {"JSONDecodeError", "ConnectTimeout", "KeyError", "ConnectionError"}

-----------------------------------------------------------------------------
(* ESP instances *)

\* sensor["Type"].lower()
Lower(type) ==
    CASE type = "Switch input - Switch" -> "switch input - switch"
      [] type = "Switch" -> "switch"
      [] type = "Switch Input - Rotary Encoder" -> "switch input - rotary encoder"
      [] type = "Environment - DHT11/12/22  SONOFF2301/7021" -> "environment - dht11/12/22  sonoff2301/7021"
      [] type = "DHT" -> "dht"
      [] type = "Frobnicator" -> "frobnicator"
      [] OTHER -> type

\* "switch" in s, for the lower-case strings above
ContainsSwitch(s) ==
    s \in {"switch input - switch", "switch", "switch input - rotary encoder"}

RECURSIVE InitSwitchesFrom(_, _, _)
InitSwitchesFrom(sensors, i, sw) ==
    IF i > Len(sensors) THEN sw
    ELSE InitSwitchesFrom(sensors, i + 1,
            IF ContainsSwitch(Lower(sensors[i].Type))
            THEN [sw EXCEPT ![sensors[i].TaskName] = NoGPIO]
            ELSE sw)

\* ESP._initialize_switches on a fresh record: self._switches starts empty
InitializeSwitches(state) == InitSwitchesFrom(state.sensors, 1, NoSwitches)

\* ESP.__set_up_dummy: every field is a test value, the ip argument is ignored
DummyESP ==
    [ip |-> test_ip, name |-> test_name, state |-> test_state,
     switches |-> InitializeSwitches(test_state), dummy |-> TRUE]

\* ESP.__init__(ip) once refresh has stored `state`
NewESP(a, state) ==
    [ip |-> a, name |-> state.name, state |-> state,
     switches |-> InitializeSwitches(state), dummy |-> FALSE]

-----------------------------------------------------------------------------
(* The two indices *)

InNameMap(k) == k \in DOMAIN nameMap /\ nameMap[k] # NoAddr
InRegister(k) == k \in DOMAIN reg /\ reg[k] # NoRec

\* ESP.get(key): the address the lookup ends at, and what it returns or raises
GetAddr(k) == IF InNameMap(k) THEN nameMap[k] ELSE k
Get(k) ==
    IF InRegister(GetAddr(k))
    THEN [exc |-> "none", at |-> GetAddr(k), rec |-> reg[GetAddr(k)]]
    ELSE [exc |-> "ESPNotFoundError", at |-> NoAddr, rec |-> NoRec]

\* cls._name_ip_map.update({name: ip})
NameMapUpdate(m, name, a) == [m EXCEPT ![name] = a]
\* cls._device_register.update({ip: esp})
RegisterUpdate(r, a, e) == [r EXCEPT ![a] = e]

-----------------------------------------------------------------------------
(* How a thread moves on and how its call ends *)

\* What is kept of a finished call: the call, its argument and what it raised.
Result(op, arg, e) == [op |-> op, arg |-> arg, exc |-> e]

\* Thread t goes on to label l with the locals a, d, r.
Goto(t, l, a, d, r) ==
    /\ pc' = [pc EXCEPT ![t] = l]
    /\ ip' = [ip EXCEPT ![t] = a]
    /\ dm' = [dm EXCEPT ![t] = d]
    /\ esp' = [esp EXCEPT ![t] = r]
    /\ UNCHANGED res

\* The call (or the probe thread) of t ends and its locals are gone; a request
\* that never returns leaves t blocked for good.
Ends(t, op, arg, e) ==
    /\ pc' = [pc EXCEPT ![t] = IF e = "hang" THEN "blocked"
                               ELSE IF t \in Probes THEN "done" ELSE "idle"]
    /\ ip' = [ip EXCEPT ![t] = NoAddr]
    /\ dm' = [dm EXCEPT ![t] = FALSE]
    /\ esp' = [esp EXCEPT ![t] = NoRec]
    /\ res' = [res EXCEPT ![t] = Result(op, arg, e)]

AddOp(t) == IF t \in Callers THEN "add" ELSE "probe"

-----------------------------------------------------------------------------
Init ==
    /\ reg = [a \in Addrs |-> NoRec]
    /\ nameMap = [n \in UnitNames |-> NoAddr]
    /\ settingsFile \in SettingsFiles
    /\ file_dir = "default"
    /\ defaultFile = MissingFile
    /\ unit \in [Addrs -> UnitNames]
    /\ pc = [t \in Threads |-> IF t \in Probes THEN "done" ELSE "idle"]
    /\ ip = [t \in Threads |-> NoAddr]
    /\ dm = [t \in Threads |-> FALSE]
    /\ esp = [t \in Threads |-> NoRec]
    /\ res = [t \in Threads |-> NoRes]
    /\ settings = Unbound
    /\ spawned = 0
    /\ calls = 0
    /\ sent = NoCmd
    /\ device = NoDevice

-----------------------------------------------------------------------------
(* ESP.add(ip, dummy), run by a caller or by a probe thread *)

CallAdd(t, a, d) ==
    /\ UNCHANGED <<file_dir, defaultFile, sent, device, reg, nameMap, settingsFile, unit, settings, spawned>>
    /\ t \in Callers /\ pc[t] = "idle" /\ calls < MaxCalls
    /\ calls' = calls + 1
    /\ Goto(t, "add_fetch", a, d, NoRec)

\* name = requests.get(f"http://{ip}/json").json()["System"]["Unit Name"]
\* cls._name_ip_map.update({name: ip})
AddFetch(t) ==
    /\ UNCHANGED <<file_dir, defaultFile, sent, device, reg, settingsFile, unit, settings, spawned, calls>>
    /\ pc[t] = "add_fetch"
    /\ \E h \in HostStates(ip[t]) : \E o \in FetchOutcomes(h, AddTimed) :
        IF UnitNameError(o) # "none"
        THEN /\ Ends(t, AddOp(t), ip[t], UnitNameError(o))
             /\ UNCHANGED nameMap
        ELSE /\ nameMap' = NameMapUpdate(nameMap, o.doc.name, ip[t])
             /\ Goto(t, IF dm[t] THEN "add_dummy" ELSE "add_refresh", ip[t], dm[t], NoRec)

\* What follows cls._device_register.update({ip: ESP(ip, dummy)}): add returns
\* to its caller; in a probe thread ESP.get comes next.
Registered(t, r) ==
    IF t \in Callers
    THEN Ends(t, "add", ip[t], "none")
    ELSE Goto(t, "reconcile", ip[t], FALSE, NoRec)

\* ESP(ip): self.refresh(), a second request, then _initialize_switches and
\* self.name = self._state["System"]["Unit Name"], which raises KeyError on a
\* state without System; cls._device_register.update({ip: ESP(ip)})
AddRefresh(t) ==
    /\ UNCHANGED <<file_dir, defaultFile, sent, device, nameMap, settingsFile, unit, settings, spawned, calls>>
    /\ pc[t] = "add_refresh"
    /\ \E h \in HostStates(ip[t]) : \E o \in FetchOutcomes(h, RefreshTimed) :
        IF UnitNameError(o) # "none"
        THEN /\ Ends(t, AddOp(t), ip[t], UnitNameError(o))
             /\ UNCHANGED reg
        ELSE /\ reg' = RegisterUpdate(reg, ip[t], NewESP(ip[t], o.doc))
             /\ Registered(t, NewESP(ip[t], o.doc))

\* cls._device_register.update({ip: ESP(ip, dummy=True)}): no request is made
AddDummy(t) ==
    /\ UNCHANGED <<file_dir, defaultFile, sent, device, nameMap, settingsFile, unit, settings, spawned, calls>>
    /\ pc[t] = "add_dummy"
    /\ reg' = RegisterUpdate(reg, ip[t], DummyESP)
    /\ Registered(t, DummyESP)

-----------------------------------------------------------------------------
(* ESP.get(key) and ESP.remove(ip), run by a caller *)

Keys == Addrs \cup {"n1", "name not available"}

CallGet(t, k) ==
    /\ UNCHANGED <<file_dir, defaultFile, sent, device, reg, nameMap, settingsFile, unit, settings, spawned>>
    /\ t \in Callers /\ pc[t] = "idle" /\ calls < MaxCalls
    /\ calls' = calls + 1
    /\ Ends(t, "get", k, Get(k).exc)

\* esp_deleted = cls._device_register.pop(ip)
CallRemove(t, a) ==
    /\ UNCHANGED <<file_dir, defaultFile, sent, device, nameMap, settingsFile, unit, settings, spawned>>
    /\ t \in Callers /\ pc[t] = "idle" /\ calls < MaxCalls
    /\ calls' = calls + 1
    /\ IF InRegister(a)
       THEN /\ reg' = [reg EXCEPT ![a] = NoRec]
            /\ Goto(t, "remove_name", a, FALSE, reg[a])
       ELSE /\ Ends(t, "remove", a, "KeyError")
            /\ UNCHANGED reg

\* print(cls._name_ip_map.pop(esp_deleted.name)); return esp_deleted
RemoveName(t) ==
    /\ UNCHANGED <<file_dir, defaultFile, sent, device, reg, settingsFile, unit, settings, spawned, calls>>
    /\ pc[t] = "remove_name"
    /\ IF InNameMap(esp[t].name)
       THEN /\ nameMap' = [nameMap EXCEPT ![esp[t].name] = NoAddr]
            /\ Ends(t, "remove", ip[t], "none")
       ELSE /\ Ends(t, "remove", ip[t], "KeyError")
            /\ UNCHANGED nameMap

-----------------------------------------------------------------------------
(* ESP.scan_network(network, timeout), run by the main thread *)

\* Up to the thread loop.  Without a network argument the range comes from
\* esp.yaml: a missing file, a missing key or a null value end the call, an
\* empty file raises TypeError at yaml.safe_load(f)["ipv4network"].  Then the
\* settings are loaded; any failure is logged and leaves `settings` unbound.
\* budget: the number of calls the scan must fit in.
ScanStarts(t, explicit, budget) ==
    /\ UNCHANGED <<file_dir, defaultFile, sent, device, reg, nameMap, settingsFile, unit>>
    /\ t = Scanner /\ pc[t] = "idle" /\ calls + ScanCalls <= budget
    /\ calls' = calls + ScanCalls
    /\ IF ~explicit /\ settingsFile.kind = "empty"
       THEN /\ Ends(t, "scan", SavedNetwork, "TypeError")
            /\ UNCHANGED <<settings, spawned>>
       ELSE IF ~explicit /\ (settingsFile.kind = "missing" \/ settingsFile.net # "set")
       THEN /\ Ends(t, "scan", SavedNetwork, "none")
            /\ UNCHANGED <<settings, spawned>>
       ELSE /\ settings' = IF settingsFile.kind = "missing" THEN Unbound ELSE settingsFile
            /\ spawned' = 0
            /\ pc' = [pc EXCEPT ![t] = "scan_spawn"]
            /\ ip' = [ip EXCEPT ![t] = IF explicit THEN GivenNetwork ELSE SavedNetwork]
            /\ res' = [p \in Threads |-> IF p \in Probes THEN NoRes ELSE res[p]]
            /\ UNCHANGED <<dm, esp>>

ScanBegin(t, explicit) == ScanStarts(t, explicit, MaxCalls)

\* for host in network: Thread(target=..., args=(host, timeout, settings)).start()
\* Building the first thread's arguments reads `settings`.
ScanSpawn(t) ==
    /\ UNCHANGED <<file_dir, defaultFile, sent, device, reg, nameMap, settingsFile, unit, settings, calls>>
    /\ pc[t] = "scan_spawn"
    /\ IF spawned = Len(Network)
       THEN /\ Goto(t, "scan_join", ip[t], FALSE, NoRec)
            /\ UNCHANGED spawned
       ELSE IF settings = Unbound
       THEN /\ Ends(t, "scan", ip[t], "UnboundLocalError")
            /\ UNCHANGED spawned
       ELSE /\ spawned' = spawned + 1
            /\ Goto(Network[spawned + 1], "probe", Network[spawned + 1], FALSE, NoRec)

\* A scan_network that joins only the first thread to finish, not all of them.
ScanJoinFirst(t) ==
    /\ UNCHANGED <<file_dir, defaultFile, sent, device, reg, nameMap, settingsFile, unit, settings, spawned, calls>>
    /\ pc[t] = "scan_join"
    /\ \E p \in Probes : pc[p] = "done"
    /\ Ends(t, "scan", ip[t], "none")

\* for t in threads: t.join()
ScanJoin(t) ==
    /\ UNCHANGED <<file_dir, defaultFile, sent, device, reg, nameMap, settingsFile, unit, settings, spawned, calls>>
    /\ pc[t] = "scan_join"
    /\ \A p \in Probes : pc[p] = "done"
    /\ Ends(t, "scan", ip[t], "none")

-----------------------------------------------------------------------------
(* ESP.__connect_validate_ipv4_address(host, timeout, settings): thread p probes host p *)

\* response = requests.get(f"http://{host}/json", timeout=timeout).json()
\* name = response["System"]["Unit Name"]
\* if name:
\*     if name in cls._name_ip_map: logger.info(...)
\*     else: ESP.add(host.exploded)
Probe(p) ==
    /\ UNCHANGED <<file_dir, defaultFile, sent, device, reg, nameMap, settingsFile, unit, settings, spawned, calls>>
    /\ p \in Probes /\ pc[p] = "probe"
    /\ \E h \in HostStates(p) : \E o \in FetchOutcomes(h, ProbeTimed) :
        IF UnitNameError(o) # "none"
        THEN Ends(p, "probe", p, UnitNameError(o))
        ELSE IF o.doc.name = ""
        THEN Ends(p, "noname", p, "none")
        ELSE IF InNameMap(o.doc.name)
        THEN Ends(p, "collision", p, "none")
        ELSE Goto(p, "add_fetch", p, FALSE, NoRec)

\* saved_esp_setting = next((d for d in settings["esps"] if esp.ip in d), None)
RECURSIVE SavedFrom(_, _, _)
SavedFrom(esps, i, a) ==
    IF i > Len(esps) THEN 0
    ELSE IF esps[i].ip = a THEN i ELSE SavedFrom(esps, i + 1, a)
SavedEspSetting(esps, a) == SavedFrom(esps, 1, a)

\* for switch in esp._switches: esp.map_gpio_to_switch(switch,
\*     saved[host].get("switches").get(switch, None).get("GPIO", None))
\* a switch the saved entry does not name raises AttributeError, which is logged
MapSaved(sw, saved) ==
    [s \in SwitchNames |->
        IF sw[s] # Absent /\ saved[s] # Absent THEN saved[s] ELSE sw[s]]

HasSwitch(sw) == \E s \in SwitchNames : sw[s] # Absent

\* The exception that ends the reconciliation of the record r that get()
\* returned to probe p, if any.
ReconcileError(p, r) ==
    IF settings.kind = "empty" THEN "TypeError"
    ELSE IF ~settings.hasEsps THEN "KeyError"
    ELSE IF SavedEspSetting(settings.esps, r.ip) = 0 THEN "none"
    ELSE IF HasSwitch(r.switches) /\ settings.esps[SavedEspSetting(settings.esps, r.ip)].ip # p
    THEN "KeyError"
    ELSE "none"

Reconciled(p, r) ==
    IF /\ settings.kind = "doc" /\ settings.hasEsps
       /\ SavedEspSetting(settings.esps, r.ip) # 0
       /\ settings.esps[SavedEspSetting(settings.esps, r.ip)].ip = p
    THEN [r EXCEPT !.switches =
            MapSaved(r.switches, settings.esps[SavedEspSetting(settings.esps, r.ip)].switches)]
    ELSE r

\* esp = ESP.get(host.exploded), and the reconciliation with the saved settings
Reconcile(p) ==
    /\ UNCHANGED <<file_dir, defaultFile, sent, device, nameMap, settingsFile, unit, settings, spawned, calls>>
    /\ p \in Probes /\ pc[p] = "reconcile"
    /\ IF Get(p).exc # "none"
       THEN /\ Ends(p, "probe", p, Get(p).exc)
            /\ UNCHANGED reg
       ELSE /\ reg' = [reg EXCEPT ![Get(p).at] = Reconciled(p, Get(p).rec)]
            /\ Ends(p, "registered", p, ReconcileError(p, Get(p).rec))

-----------------------------------------------------------------------------
(* The devices *)

\* An operator gives the device at address a the unit name n.
Rename(a, n) ==
    /\ UNCHANGED <<file_dir, defaultFile, sent, device, reg, nameMap, settingsFile, pc, ip, dm, esp, res, settings, spawned>>
    /\ unit[a] # n /\ calls < MaxCalls
    /\ calls' = calls + 1
    /\ unit' = [unit EXCEPT ![a] = n]

-----------------------------------------------------------------------------
Next ==
    \/ \E t \in Callers, a \in Addrs, d \in BOOLEAN : CallAdd(t, a, d)
    \/ \E t \in Threads : AddFetch(t)
    \/ \E t \in Threads : AddRefresh(t)
    \/ \E t \in Threads : AddDummy(t)
    \/ \E t \in Callers, k \in Keys : CallGet(t, k)
    \/ \E t \in Callers, a \in Addrs : CallRemove(t, a)
    \/ \E t \in Callers : RemoveName(t)
    \/ \E explicit \in BOOLEAN : ScanBegin(Scanner, explicit)
    \/ ScanSpawn(Scanner)
    \/ ScanJoin(Scanner)
    \/ \E p \in Probes : Probe(p)
    \/ \E p \in Probes : Reconcile(p)
    \/ \E a \in Addrs, n \in UnitNames : Rename(a, n)

Spec == Init /\ [][Next]_vars

\* Every thread that has started a step of its own is eventually given the next.
ThreadStep(t) ==
    \/ AddFetch(t) \/ AddRefresh(t) \/ AddDummy(t) \/ RemoveName(t)
    \/ ScanSpawn(t) \/ ScanJoin(t) \/ Probe(t) \/ Reconcile(t)

FairSpec == Spec /\ \A t \in Threads : WF_vars(ThreadStep(t))

-----------------------------------------------------------------------------
(* One thread working on records: ESP.add run alone, the methods of a record, *)
(* save_settings, and Device(name, parent) of espisy/devices.py                *)

\* The calls of this part are counted up to MaxOps.
MaxOps == 4

\* The address the records of this part are added under.
RecAddrs == {"a1"}

RotaryTask == [TaskName |-> "door", Type |-> "Switch Input - Rotary Encoder"]
PlainDHTTask == [TaskName |-> "DHT", Type |-> "DHT"]
LowerSwitchTask == [TaskName |-> "lamp", Type |-> "switch"]
UnknownTask == [TaskName |-> "DHT", Type |-> "Frobnicator"]

\* The task lists a device can report.
SensorLists ==
    { <<SwitchTask, LampTask, DHTTask>>, <<RotaryTask, PlainDHTTask>>,
      <<LowerSwitchTask, UnknownTask>>, <<DHTTask>> }
TaskDocs == {Doc("n1", sl) : sl \in SensorLists}
TaskNames == {"door", "lamp", "DHT", "dht"}
Pins == {test_gpio, test_gpio + 1}

\* device_name_class_map
ClassMap ==
    [t \in {"DHT", "Environment - DHT11/12/22  SONOFF2301/7021", "Environment - DHT12 (I2C)",
            "Switch", "Switch input - Switch", "Display", "Display - LCD2004",
            "Display - OLED SSD1306", "Display - OLED SSD1306/SH1106 Framed", "GPIO",
            "Rotary", "Switch Input - Rotary Encoder", "MQTT", "Generic - MQTT Import"} |->
        CASE t \in {"DHT", "Environment - DHT11/12/22  SONOFF2301/7021", "Environment - DHT12 (I2C)"} -> "DHT"
          [] t \in {"Switch", "Switch input - Switch"} -> "Switch"
          [] t \in {"Display", "Display - LCD2004", "Display - OLED SSD1306",
                    "Display - OLED SSD1306/SH1106 Framed"} -> "Display"
          [] t = "GPIO" -> "GPIO"
          [] t \in {"Rotary", "Switch Input - Rotary Encoder"} -> "Rotary"
          [] OTHER -> "MQTT"]

\* The classes of devices.py a class derives its properties from.
Capabilities(class) ==
    CASE class = "DHT" -> {"Thermometer", "Hygrometer"}
      [] class = "Switch" -> {"Switch"}
      [] class = "Display" -> {"Display"}
      [] class = "GPIO" -> {"GPIO"}
      [] class = "Rotary" -> {"Rotary"}
      [] class = "MQTT" -> {"MQTT"}
      [] OTHER -> {}

\* The same lookup with the Type compared ignoring letter case.
RECURSIVE DeviceFromAnyCase(_, _, _)
DeviceFromAnyCase(sensors, i, name) ==
    IF i > Len(sensors) THEN NoDevice
    ELSE IF /\ Lower(sensors[i].TaskName) = Lower(name)
            /\ \E t \in DOMAIN ClassMap : Lower(t) = Lower(sensors[i].Type)
    THEN ClassMap[CHOOSE t \in DOMAIN ClassMap : Lower(t) = Lower(sensors[i].Type)]
    ELSE DeviceFromAnyCase(sensors, i + 1, name)

\* Device.__new__(name, parent) with device_type="auto": the class of the
\* first task of that name whose Type is in the table; None when there is none.
RECURSIVE DeviceFrom(_, _, _)
DeviceFrom(sensors, i, name) ==
    IF i > Len(sensors) THEN NoDevice
    ELSE IF Lower(sensors[i].TaskName) = Lower(name) /\ sensors[i].Type \in DOMAIN ClassMap
    THEN ClassMap[sensors[i].Type]
    ELSE DeviceFrom(sensors, i + 1, name)

\* A call of this part returns or raises e.
Returns(op, arg, e) ==
    /\ calls < MaxOps
    /\ calls' = calls + 1
    /\ res' = [res EXCEPT !["user"] = Result(op, arg, e)]
    /\ UNCHANGED <<file_dir, unit, pc, ip, dm, esp, settings, spawned>>

\* ESP.add(ip, dummy) run alone, the device answering both requests with doc
AddAlone(a, d, doc) ==
    /\ UNCHANGED <<settingsFile, defaultFile, sent, device>>
    /\ nameMap' = NameMapUpdate(nameMap, doc.name, a)
    /\ reg' = RegisterUpdate(reg, a, IF d THEN DummyESP ELSE NewESP(a, doc))
    /\ Returns("add", a, "none")

\* ESP.refresh: a dummy keeps its state, any other record stores the answer
RefreshedESP(r, doc) == IF r.dummy THEN r ELSE [r EXCEPT !.state = doc]

Refresh(a, doc) ==
    /\ UNCHANGED <<nameMap, settingsFile, defaultFile, sent, device>>
    /\ InRegister(a)
    /\ reg' = [reg EXCEPT ![a] = RefreshedESP(reg[a], doc)]
    /\ Returns("refresh", a, "none")

\* ESP.delete_switch(name): self._switches.pop(name)
DeleteSwitch(a, s) ==
    /\ UNCHANGED <<nameMap, settingsFile, defaultFile, sent, device>>
    /\ InRegister(a)
    /\ IF reg[a].switches[s] # Absent
       THEN /\ reg' = [reg EXCEPT ![a].switches[s] = Absent]
            /\ Returns("delete_switch", s, "none")
       ELSE /\ UNCHANGED reg
            /\ Returns("delete_switch", s, "KeyError")

\* ESP.map_gpio_to_switch(switch, gpio): self._switches[switch]["GPIO"] = gpio
MapGpioToSwitch(a, s, g) ==
    /\ UNCHANGED <<nameMap, settingsFile, defaultFile, sent, device>>
    /\ InRegister(a)
    /\ IF reg[a].switches[s] # Absent
       THEN /\ reg' = [reg EXCEPT ![a].switches[s] = g]
            /\ Returns("map_gpio_to_switch", s, "none")
       ELSE /\ UNCHANGED reg
            /\ Returns("map_gpio_to_switch", s, "KeyError")

\* ESP.gpio_on(gpio) and ESP.gpio_off(gpio) of record r, value 1 or 0: what is
\* raised, and the command built; a dummy returns the URL and requests nothing.
GpioError(g) == IF g = NoGPIO THEN "NoGPIOError" ELSE "none"
GpioCmd(r, g, value) ==
    IF g = NoGPIO THEN NoCmd ELSE Cmd(IF value = 1 THEN "GPIO,1" ELSE "GPIO,0", g, r.ip, ~r.dummy)

GpioOn(a, g) ==
    /\ UNCHANGED <<reg, nameMap, settingsFile, defaultFile, device>>
    /\ InRegister(a)
    /\ sent' = GpioCmd(reg[a], g, 1)
    /\ Returns("gpio_on", PinStr(g), GpioError(g))

GpioOff(a, g) ==
    /\ UNCHANGED <<reg, nameMap, settingsFile, defaultFile, device>>
    /\ InRegister(a)
    /\ sent' = GpioCmd(reg[a], g, 0)
    /\ Returns("gpio_off", PinStr(g), GpioError(g))

\* on and off without the test of gpio == None
SwitchErrorUnchecked(r, s) ==
    IF r.switches[s] = Absent THEN "KeyError" ELSE "none"

\* gpio = self._switches[switch]["GPIO"]; if gpio == None: raise NoGPIOError(...)
SwitchError(r, s) ==
    IF r.switches[s] = Absent THEN "KeyError"
    ELSE IF r.switches[s] = NoGPIO THEN "NoGPIOError" ELSE "none"

\* ESP.on(switch) and ESP.off(switch)
SwitchCmd(r, s, value) ==
    IF SwitchError(r, s) # "none" THEN NoCmd ELSE GpioCmd(r, r.switches[s], value)

On(a, s) ==
    /\ UNCHANGED <<reg, nameMap, settingsFile, defaultFile, device>>
    /\ InRegister(a)
    /\ sent' = SwitchCmd(reg[a], s, 1)
    /\ Returns("on", s, SwitchError(reg[a], s))

Off(a, s) ==
    /\ UNCHANGED <<reg, nameMap, settingsFile, defaultFile, device>>
    /\ InRegister(a)
    /\ sent' = SwitchCmd(reg[a], s, 0)
    /\ Returns("off", s, SwitchError(reg[a], s))

\* ESP.toggle(switch) with a name: a name that is no key leaves gpio unassigned;
\* the command is requested from the device, dummy or not.
ToggleError(r, s) ==
    IF r.switches[s] = Absent THEN "UnboundLocalError"
    ELSE IF r.switches[s] = NoGPIO THEN "NoGPIOError" ELSE "none"

Toggle(a, s) ==
    /\ UNCHANGED <<reg, nameMap, settingsFile, defaultFile, device>>
    /\ InRegister(a)
    /\ sent' = IF ToggleError(reg[a], s) # "none" THEN NoCmd
               ELSE Cmd("gpiotoggle", reg[a].switches[s], reg[a].ip, TRUE)
    /\ Returns("toggle", s, ToggleError(reg[a], s))

\* ESP.toggle(switch) with a GPIO number
TogglePin(a, g) ==
    /\ UNCHANGED <<reg, nameMap, settingsFile, defaultFile, device>>
    /\ InRegister(a)
    /\ sent' = Cmd("gpiotoggle", g, reg[a].ip, TRUE)
    /\ Returns("toggle", PinStr(g), "none")

\* ESP.switch_state(switch)
SwitchState(a, s) ==
    /\ UNCHANGED <<reg, nameMap, settingsFile, defaultFile, device>>
    /\ InRegister(a)
    /\ sent' = IF SwitchError(reg[a], s) # "none" THEN NoCmd
               ELSE Cmd("status,gpio", reg[a].switches[s], reg[a].ip, ~reg[a].dummy)
    /\ Returns("switch_state", s, SwitchError(reg[a], s))

\* save_settings without the search for an entry of the address
SavedSettingsAppended(doc, r) ==
    [doc EXCEPT !.hasEsps = TRUE, !.esps = Append(doc.esps, Entry(r.ip, r.switches))]

\* ESP.save_settings of record r on the document doc: the first entry that has
\* r.ip is updated, else one is appended; "esps" is added when missing.
SavedSettings(doc, r) ==
    IF SavedEspSetting(doc.esps, r.ip) = 0
    THEN [doc EXCEPT !.hasEsps = TRUE, !.esps = Append(doc.esps, Entry(r.ip, r.switches))]
    ELSE [doc EXCEPT !.esps[SavedEspSetting(doc.esps, r.ip)] = Entry(r.ip, r.switches)]

\* open(filename, "r") on a missing file; "esps" not in None on an empty one
SaveError(doc) ==
    IF doc.kind = "missing" THEN "FileNotFoundError"
    ELSE IF doc.kind = "empty" THEN "TypeError" ELSE "none"

\* filename = os.path.join(config.get("USER_SETTINGS", "file_dir"), "esp.yaml"):
\* with file_dir "default" this is default/esp.yaml, not settings_file_name
SaveFile == IF file_dir = "default" THEN defaultFile ELSE settingsFile

SaveSettings(a) ==
    /\ UNCHANGED <<reg, nameMap, sent, device>>
    /\ InRegister(a)
    /\ IF SaveError(SaveFile) # "none"
       THEN UNCHANGED <<settingsFile, defaultFile>>
       ELSE IF file_dir = "default"
       THEN defaultFile' = SavedSettings(defaultFile, reg[a]) /\ UNCHANGED settingsFile
       ELSE settingsFile' = SavedSettings(settingsFile, reg[a]) /\ UNCHANGED defaultFile
    /\ Returns("save_settings", a, SaveError(SaveFile))

\* Device(name, parent) with parent the record at a
NewDevice(a, name) ==
    /\ UNCHANGED <<reg, nameMap, settingsFile, defaultFile, sent>>
    /\ InRegister(a)
    /\ device' = DeviceFrom(reg[a].state.sensors, 1, name)
    /\ Returns("Device", name, "none")

RecInit ==
    /\ reg = [a \in Addrs |-> NoRec]
    /\ nameMap = [n \in UnitNames |-> NoAddr]
    /\ file_dir \in FileDirs
    /\ IF file_dir = "default"
       THEN settingsFile = MissingFile /\ defaultFile \in SettingsFiles
       ELSE settingsFile \in SettingsFiles /\ defaultFile = MissingFile
    /\ unit = [a \in Addrs |-> "n1"]
    /\ pc = [t \in Threads |-> IF t \in Probes THEN "done" ELSE "idle"]
    /\ ip = [t \in Threads |-> NoAddr]
    /\ dm = [t \in Threads |-> FALSE]
    /\ esp = [t \in Threads |-> NoRec]
    /\ res = [t \in Threads |-> NoRes]
    /\ settings = Unbound
    /\ spawned = 0
    /\ calls = 0
    /\ sent = NoCmd
    /\ device = NoDevice

RecNext ==
    \/ \E a \in RecAddrs, d \in BOOLEAN, doc \in TaskDocs : AddAlone(a, d, doc)
    \/ \E a \in RecAddrs, doc \in TaskDocs : Refresh(a, doc)
    \/ \E a \in RecAddrs, s \in SwitchNames : DeleteSwitch(a, s)
    \/ \E a \in RecAddrs, s \in SwitchNames, g \in Pins \cup {NoGPIO} : MapGpioToSwitch(a, s, g)
    \/ \E a \in RecAddrs, g \in Pins \cup {NoGPIO} : GpioOn(a, g)
    \/ \E a \in RecAddrs, g \in Pins \cup {NoGPIO} : GpioOff(a, g)
    \/ \E a \in RecAddrs, s \in SwitchNames : On(a, s)
    \/ \E a \in RecAddrs, s \in SwitchNames : Off(a, s)
    \/ \E a \in RecAddrs, s \in SwitchNames : Toggle(a, s)
    \/ \E a \in RecAddrs, g \in Pins : TogglePin(a, g)
    \/ \E a \in RecAddrs, s \in SwitchNames : SwitchState(a, s)
    \/ \E a \in RecAddrs : SaveSettings(a)
    \/ \E a \in RecAddrs, name \in TaskNames : NewDevice(a, name)

RecordSpec == RecInit /\ [][RecNext]_vars

-----------------------------------------------------------------------------
(* Saving, removing and rediscovering a record: save_settings, ESP.remove and *)
(* ESP.scan_network(network) on a register that holds one mapped record       *)

\* save_settings, remove and the scan, which counts ScanCalls.
MaxTrip == 4

TripAddr == "a1"
TripSwitch == "lamp"
TripPin == test_gpio + 1

\* ESP.add(TripAddr) and map_gpio_to_switch(TripSwitch, TripPin) have been
\* called; the device at the other address has another name.
TripInit ==
    /\ reg = [a \in Addrs |->
                IF a = TripAddr
                THEN [NewESP(a, StateDoc("n1")) EXCEPT !.switches[TripSwitch] = TripPin]
                ELSE NoRec]
    /\ nameMap = [n \in UnitNames |-> IF n = "n1" THEN TripAddr ELSE NoAddr]
    /\ unit \in {u \in [Addrs -> UnitNames] : u[TripAddr] = "n1" /\ \A a \in Addrs \ {TripAddr} : u[a] # "n1"}
    /\ file_dir \in FileDirs
    /\ settingsFile \in SettingsFiles
    /\ IF file_dir = "default" THEN defaultFile \in SettingsFiles ELSE defaultFile = MissingFile
    /\ pc = [t \in Threads |-> IF t \in Probes THEN "done" ELSE "idle"]
    /\ ip = [t \in Threads |-> NoAddr]
    /\ dm = [t \in Threads |-> FALSE]
    /\ esp = [t \in Threads |-> NoRec]
    /\ res = [t \in Threads |-> NoRes]
    /\ settings = Unbound
    /\ spawned = 0
    /\ calls = 0
    /\ sent = NoCmd
    /\ device = NoDevice

\* ESP.get(TripAddr).save_settings(), between the calls of the user's thread
TripSave ==
    /\ pc["user"] = "idle"
    /\ SaveSettings(TripAddr)

TripNext ==
    \/ TripSave
    \/ CallRemove("user", TripAddr)
    \/ RemoveName("user")
    \/ ScanStarts(Scanner, TRUE, MaxTrip)
    \/ ScanSpawn(Scanner)
    \/ ScanJoin(Scanner)
    \/ \E p \in Probes : Probe(p)
    \/ \E p \in Probes : AddFetch(p)
    \/ \E p \in Probes : AddRefresh(p)
    \/ \E p \in Probes : Reconcile(p)

TripSpec == TripInit /\ [][TripNext]_vars

-----------------------------------------------------------------------------
(* Properties *)

\* No call is in progress.
Quiescent == \A t \in Threads : pc[t] \in {"idle", "done"}

\* scan_network has been called, nothing else has been called and no device has
\* been renamed, and the call has returned or raised.
ScanOnly == calls = ScanCalls /\ pc[Scanner] = "idle" /\ res[Scanner].op = "scan"

\* The names the name index maps to address a.
NamesOf(a) == {n \in UnitNames : nameMap[n] = a}

TimeoutErrors == {"ConnectTimeout", "ReadTimeout"}
FetchFailures == TimeoutErrors \cup {"ConnectionError", "JSONDecodeError"}

\* C1: whenever no call is in progress, every address the name index holds as
\* a value is a key of the address index.
C1_NameIndexWithinRegister ==
    Quiescent => \A n \in UnitNames : InNameMap(n) => InRegister(nameMap[n])

\* C2: when a scan has probed two distinct addresses whose devices report the
\* same unit name and both probes got as far as the collision check, exactly
\* one of the two is registered, the other was skipped as a collision, and
\* get(name) ends at the registered one.
C2_FirstSeenWins ==
    \A p, q \in Probes :
        (/\ ScanOnly /\ p # q /\ unit[p] = unit[q]
         /\ {res[p].op, res[q].op} \subseteq {"registered", "collision"})
        => \/ /\ res[p].op = "registered" /\ res[q].op = "collision"
              /\ InRegister(p) /\ ~InRegister(q) /\ Get(unit[p]).at = p
           \/ /\ res[q].op = "registered" /\ res[p].op = "collision"
              /\ InRegister(q) /\ ~InRegister(p) /\ Get(unit[q]).at = q

\* Thread t has made the first of the two index writes of an add or a remove
\* and not yet the second.
BetweenIndexWrites(t) == pc[t] \in {"add_refresh", "add_dummy", "remove_name"}

\* C3: no thread is ever suspended between the two index writes of an add or a
\* remove, and two probe threads that have added distinct addresses with
\* distinct names leave both devices in both indices.
C3_AddRemoveAtomic ==
    /\ \A t \in Threads : ~BetweenIndexWrites(t)
    /\ \A p, q \in Probes :
        (/\ ScanOnly /\ p # q /\ unit[p] # unit[q]
         /\ res[p].op = "registered" /\ res[q].op = "registered")
        => /\ InRegister(p) /\ InRegister(q)
           /\ nameMap[unit[p]] = p /\ nameMap[unit[q]] = q

\* C4: after a scan has returned, an address for which a fetch of the scan
\* failed with a timeout, a refused connection or a JSON decode failure has no
\* entry in either index, and the scan raised nothing.
C4_FailedFetchLeavesNothing ==
    \A p \in Probes :
        (ScanOnly /\ res[p].op = "probe" /\ res[p].exc \in FetchFailures)
        => /\ ~InRegister(p) /\ NamesOf(p) = {}
           /\ res[Scanner].exc = "none"

\* C5: once add(A) has returned, get(A) returns the record the address index
\* holds under A, and the ip of that record is A.
C5_AddThenGet ==
    \A t \in Callers, a \in Addrs :
        (pc[t] = "idle" /\ res[t] = Result("add", a, "none"))
        => /\ Get(a).exc = "none" /\ Get(a).at = a
           /\ Get(a).rec.ip = a

\* C6: with no scan around, a remove(A) that has returned leaves A in neither
\* index, and a remove(A) that has failed (A was not registered, as at a second
\* remove) has raised ESPNotFoundError.
C6_RemoveThenRemove ==
    \A t \in Callers, a \in Addrs :
        (/\ pc[t] = "idle" /\ res[t].op = "remove" /\ res[t].arg = a
         /\ pc[Scanner] = "idle" /\ res[Scanner].op = "none")
        => /\ res[t].exc = "none" => (~InRegister(a) /\ NamesOf(a) = {})
           /\ res[t].exc # "none" => res[t].exc = "ESPNotFoundError"

\* C7: a get(key) made while no other call is in progress raises
\* ESPNotFoundError exactly when key is a key of neither index, and returns a
\* record otherwise.
C7_GetNotFoundIffUnknown ==
    [][\A t \in Callers, k \in Keys :
        (Quiescent /\ CallGet(t, k))
        => /\ res'[t].exc = "ESPNotFoundError" <=> (~InNameMap(k) /\ ~InRegister(k))
           /\ res'[t].exc = "none" <=> (InNameMap(k) \/ InRegister(k))]_vars

\* C8: whenever no call is in progress, get(K) for a key K of the name index
\* returns the record the address index holds under nameMap[K], and the name
\* of that record is K.
C8_NameLookupFirst ==
    Quiescent =>
        \A k \in UnitNames :
            InNameMap(k) => /\ Get(k).exc = "none" /\ Get(k).at = nameMap[k]
                            /\ Get(k).rec.name = k

\* All requests made for host p by the scan were answered with a state document.
Answered(p) ==
    \/ res[p].op \in {"registered", "collision", "noname"}
    \/ res[p] = Result("probe", p, "ESPNotFoundError")
\* The probe request to host p timed out.
TimedOut(p) == res[p].op = "probe" /\ res[p].exc \in TimeoutErrors

\* C9: a scan over a given range in which some hosts answer every request,
\* with distinct non-empty names, and all others time out raises nothing, and
\* after it exactly the answering hosts are registered, each under its name.
C9_ScanRegistersAnswering ==
    (ScanOnly /\ res[Scanner].arg = GivenNetwork) =>
        /\ res[Scanner].exc = "none"
        /\ (/\ \A p \in Probes : Answered(p) \/ TimedOut(p)
            /\ \A p \in Probes : Answered(p) => unit[p] # ""
            /\ \A p, q \in Probes : (Answered(p) /\ Answered(q) /\ p # q) => unit[p] # unit[q])
           => \A p \in Probes :
                /\ Answered(p) <=> InRegister(p)
                /\ Answered(p) => nameMap[unit[p]] = p
                /\ TimedOut(p) => NamesOf(p) = {}

\* No request has ended in anything but a state document or a timeout: every
\* host asked so far has answered or stayed silent.
AnswerOrSilent ==
    \A t \in Threads : res[t].exc \notin {"ConnectionError", "JSONDecodeError", "KeyError"}

\* C10: under fair scheduling, if every host answers or stays silent, a scan
\* that has started its thread loop eventually returns.
C10_ScanReturns ==
    []AnswerOrSilent => ((pc[Scanner] = "scan_spawn") ~> (pc[Scanner] = "idle"))

\* scan_network had a range to scan: the network argument, or the ipv4network
\* entry of esp.yaml.
Ranged ==
    \/ res[Scanner].arg = GivenNetwork
    \/ settingsFile.kind = "doc" /\ settingsFile.net = "set"

\* C11: while scan_network waits for its threads it has started one for every
\* host of the range, and once it has returned or raised no probe thread is
\* still running; when it has returned from a scan of a range, every host's
\* probe has run to its end.
C11_ScanJoinsAllProbes ==
    /\ pc[Scanner] = "scan_join" => spawned = Len(Network)
    /\ (pc[Scanner] = "idle" /\ res[Scanner].op = "scan") =>
        /\ \A p \in Probes : pc[p] = "done"
        /\ (res[Scanner].exc = "none" /\ Ranged) =>
            /\ spawned = Len(Network)
            /\ \A p \in Probes : res[p].op # "none"

\* scan_network has returned after one host was registered and another failed.
C11_Witness ==
    /\ pc[Scanner] = "idle" /\ res[Scanner].op = "scan" /\ res[Scanner].exc = "none"
    /\ \E p, q \in Probes : res[p].op = "registered" /\ res[q].op = "probe"

\* The pin the document doc saves for switch s of address a (Absent: none).
SavedPin(doc, a, s) ==
    IF doc.kind = "doc" /\ doc.hasEsps /\ SavedEspSetting(doc.esps, a) # 0
    THEN doc.esps[SavedEspSetting(doc.esps, a)].switches[s]
    ELSE Absent

\* The state document has a switch task named s.
HasSwitchTask(state, s) ==
    \E i \in 1..Len(state.sensors) :
        state.sensors[i].TaskName = s /\ ContainsSwitch(Lower(state.sensors[i].Type))

\* C12: after a scan has returned, a registered address A whose fresh state
\* has a switch task s for which esp.yaml saves a pin g has, in the record
\* get(A) returns, s mapped to g.
C12_SavedGpioApplied ==
    \A p \in Probes, s \in SwitchNames :
        (/\ ScanOnly /\ res[Scanner].exc = "none"
         /\ InRegister(p) /\ HasSwitchTask(reg[p].state, s)
         /\ SavedPin(settingsFile, p, s) \notin {Absent, NoGPIO})
        => /\ Get(p).exc = "none"
           /\ Get(p).rec.switches[s] = SavedPin(settingsFile, p, s)

\* What reconciling leaves for task name s in a record built from state, given
\* the pin saved for s: no key for a name the state has no switch task for,
\* the saved pin for a switch that has one, no pin for a switch that has none.
ExpectedPin(state, saved, s) ==
    IF ~HasSwitchTask(state, s) THEN Absent
    ELSE IF saved # Absent THEN saved ELSE NoGPIO

\* C13: after a scan has returned, for a registered address that esp.yaml has
\* an entry for, the probe ended without error and each task name of the record
\* is as reconciling leaves it: a saved name without a switch task is no key, a
\* switch without saved data has no pin, every other switch has its saved pin.
C13_ReconcileSkipsMismatches ==
    \A p \in Probes :
        (/\ ScanOnly /\ res[Scanner].exc = "none" /\ InRegister(p)
         /\ settingsFile.kind = "doc" /\ settingsFile.hasEsps
         /\ SavedEspSetting(settingsFile.esps, p) # 0)
        => /\ res[p] = Result("registered", p, "none")
           /\ \A s \in SwitchNames :
                reg[p].switches[s] = ExpectedPin(reg[p].state, SavedPin(settingsFile, p, s), s)


\* The last call was a refresh of the record at a, which is no dummy.
RefreshedAt(a) ==
    /\ res["user"] = Result("refresh", a, "none")
    /\ InRegister(a)
    /\ ~reg[a].dummy

\* C14: after a refresh of a record every task of the fetched snapshot whose
\* type is a switch kind is a key of the record's switches.
C14_RefreshKeepsSwitchKeys ==
    \A a \in RecAddrs, s \in SwitchNames :
        (RefreshedAt(a) /\ HasSwitchTask(reg[a].state, s)) => reg[a].switches[s] # Absent


\* The last call was op(arg) on the record at a.
Called(a, ops, arg) ==
    /\ InRegister(a)
    /\ res["user"].op \in ops
    /\ res["user"].arg = arg

\* on, off, toggle and switch_state of a switch without GPIO, gpio_on and
\* gpio_off without pin: NoGPIOError, and no command.
NoGpioRaises ==
    \A a \in RecAddrs :
        /\ \A s \in SwitchNames :
            (Called(a, {"on", "off", "toggle", "switch_state"}, s) /\ reg[a].switches[s] = NoGPIO)
            => res["user"].exc = "NoGPIOError" /\ sent = NoCmd
        /\ Called(a, {"gpio_on", "gpio_off"}, PinStr(NoGPIO))
            => res["user"].exc = "NoGPIOError" /\ sent = NoCmd

\* on and off that return have built the GPIO command for the mapped pin.
MappedPinSwitched ==
    \A a \in RecAddrs, s \in SwitchNames :
        /\ (Called(a, {"on"}, s) /\ res["user"].exc = "none")
            => /\ reg[a].switches[s] \in Pins
               /\ sent = Cmd("GPIO,1", reg[a].switches[s], reg[a].ip, ~reg[a].dummy)
        /\ (Called(a, {"off"}, s) /\ res["user"].exc = "none")
            => /\ reg[a].switches[s] \in Pins
               /\ sent = Cmd("GPIO,0", reg[a].switches[s], reg[a].ip, ~reg[a].dummy)

\* A switch of a record gets a pin in map_gpio_to_switch only.
PinOnlyMapped ==
    \A a \in RecAddrs, s \in SwitchNames :
        (reg[a].switches[s] = NoGPIO /\ reg'[a].switches[s] \in Pins)
        => res'["user"] = Result("map_gpio_to_switch", s, "none")

SecondAdd(t) ==
    /\ pc[Scanner] = "idle" /\ \A p \in Probes : pc[p] = "done"
    /\ InRegister(ip[t])
    /\ AddRefresh(t)
    /\ res'[t] = Result("add", ip[t], "none")

\* C16: an add for an address that already has a record replaces the record:
\* the register then holds under the address the record built from the latest
\* fetch, and the name index maps the name last reported to the address.
C16_AddTwiceReplaces ==
    [][\A t \in Callers :
        SecondAdd(t)
        => /\ reg'[ip[t]].ip = ip[t]
           /\ reg'[ip[t]].name = unit[ip[t]]
           /\ nameMap'[unit[ip[t]]] = ip[t]]_vars


\* C19: a remove that raises leaves both indices as they were before the call:
\* when the pop of the register raises nothing has changed, and when the pop
\* of the name index raises the register still holds the record of the address.
C19_FailedRemoveChangesNothing ==
    [][\A t \in Callers :
        /\ \A a \in Addrs :
            (CallRemove(t, a) /\ pc'[t] = "idle")
            => res'[t].exc = "KeyError" /\ reg' = reg /\ nameMap' = nameMap
        /\ (RemoveName(t) /\ res'[t].exc # "none")
            => reg'[ip[t]] = esp[t] /\ nameMap' = nameMap]_vars


\* The capabilities of what Device(name, parent) returned; none for None.
DeviceCapabilities == IF device = NoDevice THEN {} ELSE Capabilities(device)

\* The last call was Device(name, parent) for the record at a, whose snapshot
\* has a task of that name and of the type given.
Resolved(a, name, type) ==
    /\ InRegister(a)
    /\ res["user"].op = "Device" /\ res["user"].arg = name
    /\ \E i \in 1..Len(reg[a].state.sensors) :
        reg[a].state.sensors[i] = [TaskName |-> name, Type |-> type]

\* C17: the device resolved for a task of type "DHT" has exactly the
\* thermometer and hygrometer capabilities, for a task of type "Switch"
\* exactly the switch capability; for a task whose type is not in the table
\* ("Frobnicator", or "switch" in lower case) there is no device, and nothing
\* is raised.
C17_DeviceResolution ==
    \A a \in RecAddrs, name \in TaskNames :
        /\ Resolved(a, name, "DHT") => DeviceCapabilities = {"Thermometer", "Hygrometer"}
        /\ Resolved(a, name, "Switch") => DeviceCapabilities = {"Switch"}
        /\ \A type \in {"Frobnicator", "switch"} :
            Resolved(a, name, type)
            => device = NoDevice /\ DeviceCapabilities = {} /\ res["user"].exc = "none"

\* Device("lamp", parent) on a snapshot whose lamp task has the type "switch".
C17_Witness ==
    /\ Resolved("a1", "lamp", "switch")
    /\ device = NoDevice


\* The positions of the entries of address a in the device list esps.
EntriesOf(esps, a) == {i \in 1..Len(esps) : esps[i].ip = a}

\* The device list new is old with the switches sw merged in under address a:
\* the first entry of a is replaced in place, or one entry is appended when
\* there is none; every other entry is as before.
MergedByAddress(old, new, a, sw) ==
    IF EntriesOf(old, a) = {}
    THEN /\ Len(new) = Len(old) + 1
         /\ new[Len(new)] = Entry(a, sw)
         /\ \A j \in 1..Len(old) : new[j] = old[j]
    ELSE /\ Len(new) = Len(old)
         /\ \E i \in EntriesOf(old, a) :
            /\ \A j \in EntriesOf(old, a) : i <= j
            /\ new[i] = Entry(a, sw)
            /\ \A j \in 1..Len(old) : j # i => new[j] = old[j]

\* C18: a save_settings that returns has merged the record's switches into
\* the device list under the record's address (entry updated in place, or
\* appended), has left the other entries and the rest of the document as they
\* were, and a second save right after it leaves the document as it is.
C18_SaveMergesByAddress ==
    [][\A a \in RecAddrs :
        (SaveSettings(a) /\ res'["user"].exc = "none")
        => /\ MergedByAddress(SaveFile.esps, SaveFile'.esps, reg[a].ip, reg[a].switches)
           /\ SaveFile'.kind = "doc" /\ SaveFile'.net = SaveFile.net
           /\ res["user"] = Result("save_settings", a, "none") => SaveFile' = SaveFile]_vars

\* save_settings has replaced the saved switches of a1, behind the entry of a2.
C18_Witness ==
    /\ res["user"] = Result("save_settings", "a1", "none")
    /\ InRegister("a1")
    /\ SaveFile.esps = <<Entry("a2", NoSwitches), Entry("a1", reg["a1"].switches)>>
    /\ reg["a1"].switches # SavedDoor


\* name is a key of the switches sw
IsSwitchKey(sw, name) == name \in DOMAIN sw /\ sw[name] # Absent

\* device_name_class_map has the type and maps it to the class Switch
SwitchInTable(type) ==
    type \in DOMAIN ClassMap /\ "Switch" \in Capabilities(ClassMap[type])

\* C20: in a record just constructed from a snapshot, the name of a task is a
\* key of the record's switches exactly when device_name_class_map resolves
\* the task's type to the switch capability, and every key has no GPIO.
C20_SwitchesAgreeWithTable ==
    \A a \in RecAddrs :
        (res["user"] = Result("add", a, "none") /\ InRegister(a))
        => /\ \A i \in 1..Len(reg[a].state.sensors) :
                IsSwitchKey(reg[a].switches, reg[a].state.sensors[i].TaskName)
                <=> SwitchInTable(reg[a].state.sensors[i].Type)
           /\ \A s \in SwitchNames :
                IsSwitchKey(reg[a].switches, s) => reg[a].switches[s] = NoGPIO


\* The record at address b is resolved by get(b) and by get of its own name.
Resolvable(b) ==
    /\ InRegister(b)
    /\ Get(b).exc = "none" /\ Get(b).at = b
    /\ InNameMap(reg[b].name) /\ nameMap[reg[b].name] = b

\* C21: a remove(A) leaves every other registered address B as it was: B
\* keeps its record and is still resolved by get through its address and
\* through its name.
C21_RemoveFrame ==
    [][\A t \in Callers, a, b \in Addrs :
        (/\ a # b /\ Resolvable(b)
         /\ CallRemove(t, a) \/ (ip[t] = a /\ RemoveName(t)))
        => /\ reg'[b] = reg[b]
           /\ nameMap'[reg[b].name] = b]_vars


\* C22: when an add(A) has returned, the name index maps the name of the
\* record stored under A to A.
C22_NameOfRecordIndexed ==
    [][\A t \in Callers :
        ((AddRefresh(t) \/ AddDummy(t)) /\ res'[t] = Result("add", ip[t], "none"))
        => /\ reg'[ip[t]].name \in DOMAIN nameMap'
           /\ nameMap'[reg'[ip[t]].name] = ip[t]]_vars


\* esp.yaml holds no saved switches for address a: it cannot be opened, is
\* empty, has no device list, or its device list has no entry of a.
NothingSavedFor(a) ==
    \/ settingsFile.kind \in {"missing", "empty"}
    \/ ~settingsFile.hasEsps
    \/ SavedEspSetting(settingsFile.esps, a) = 0

\* Every host of the scan has answered every request or timed out, and the
\* hosts that answered have distinct names that are not empty.
DistinctAnswers ==
    /\ \A p \in Probes : Answered(p) \/ TimedOut(p)
    /\ \A p \in Probes : Answered(p) => unit[p] # ""
    /\ \A p, q \in Probes : (Answered(p) /\ Answered(q) /\ p # q) => unit[p] # unit[q]

\* C23: a scan over a given range, with an esp.yaml that holds nothing for the
\* addresses discovered, raises nothing, and every host that answered is in
\* both indices with no GPIO mapped to any of its switches.
C23_ScanWithoutSettings ==
    (ScanOnly /\ res[Scanner].arg = GivenNetwork /\ \A a \in Addrs : NothingSavedFor(a))
    => /\ res[Scanner].exc = "none"
       /\ DistinctAnswers
          => \A p \in Probes :
                Answered(p)
                => /\ InRegister(p) /\ nameMap[unit[p]] = p
                   /\ \A s \in SwitchNames : reg[p].switches[s] \in {Absent, NoGPIO}


\* save_settings has written the pin of the switch under the record's address.
Persisted == SavedPin(SaveFile, TripAddr, TripSwitch) = TripPin

\* After it the record was removed and a scan has registered the device at
\* the address again, with the switch still among its tasks.
Rediscovered ==
    /\ pc[Scanner] = "idle" /\ res[Scanner] = Result("scan", GivenNetwork, "none")
    /\ res["user"] = Result("remove", TripAddr, "none")
    /\ res[TripAddr].op = "registered"
    /\ InRegister(TripAddr) /\ reg[TripAddr].ip = TripAddr
    /\ HasSwitchTask(reg[TripAddr].state, TripSwitch)

\* C24: a record with switch s mapped to pin g is saved and removed, and a
\* scan registers the device at the same address again, still with switch s:
\* the new record has s mapped to g.
C24_SaveScanRoundTrip ==
    (Persisted /\ Rediscovered) => reg[TripAddr].switches[TripSwitch] = TripPin

=============================================================================
